---- MODULE Spec2Model ----
(***************************************************************************)
(* A model of src/src/lib.rs: the resource constructors (Buffer, Image,    *)
(* load_image_from_bytes), generate_mips and the cleanup / write_mapped    *)
(* methods, as a sequential program that records API calls and commands.   *)
(*                                                                         *)
(* The program position is pc; log is the sequence of device / allocator   *)
(* calls made and of commands recorded into the command buffer, in order.  *)
(* Every fallible call (one the code follows with `?`) either succeeds or  *)
(* fails, chosen by the environment.                                       *)
(***************************************************************************)
EXTENDS Integers, Sequences, FiniteSets, TLC

\* ---------------------------------------------------------------- bounds
MaxMips == 4
MaxExtent == 2
MaxLen == 3
MaxCleanups == 2

\* Physical devices the instance enumerates, at most.
MaxDevices == 2

\* ------------------------------------------------------------ input sets
ByteVals == {0, 255}

ByteSeqs == UNION {[1..n -> ByteVals] : n \in 0..MaxLen}

\* Unsigned extents a caller passes to load_image_from_bytes (u32).
ExtentChoices == (1..MaxExtent) \cup {256}

\* Signed extents a caller passes to generate_mips (i32).
SignedExtentChoices == (-1..MaxExtent) \cup {256}

\* The state a caller asks the image to end in: a consumer access (the
\* transfer accesses are the transient states of the upload itself).
NextAccessChoices ==
    { <<"FragmentShaderReadSampledImage">>,
      <<"ComputeShaderReadSampledImageOrUniformTexelBuffer",
        "FragmentShaderReadSampledImage">> }

\* What the instance and the surface report for one physical device.
DeviceTypes == {"DISCRETE_GPU", "INTEGRATED_GPU", "CPU"}

QueueFamily(graphics, present) == [graphics |-> graphics, present |-> present]

QueueFamilyLists ==
    {<<QueueFamily(TRUE, TRUE), QueueFamily(TRUE, TRUE)>>,
     <<QueueFamily(TRUE, FALSE), QueueFamily(TRUE, TRUE)>>,
     <<QueueFamily(FALSE, TRUE), QueueFamily(TRUE, FALSE)>>}

SurfaceFormat(format, color_space) == [format |-> format, color_space |-> color_space]

SurfaceFormatLists ==
    {<<SurfaceFormat("B8G8R8A8_SRGB", "SRGB_NONLINEAR"),
       SurfaceFormat("R8G8B8A8_UNORM", "SRGB_NONLINEAR")>>,
     <<SurfaceFormat("B8G8R8A8_SRGB", "EXTENDED_SRGB_LINEAR"),
       SurfaceFormat("B8G8R8A8_SRGB", "SRGB_NONLINEAR")>>,
     <<SurfaceFormat("R8G8B8A8_UNORM", "SRGB_NONLINEAR"),
       SurfaceFormat("B8G8R8A8_SRGB", "EXTENDED_SRGB_LINEAR")>>,
     <<>>}

ExtensionSets ==
    {{"VK_KHR_swapchain", "VK_KHR_ray_query"}, {"VK_KHR_swapchain"},
     {"VK_KHR_ray_query"}}

RequiredChoices == {<<"VK_KHR_swapchain">>, <<"VK_KHR_swapchain", "VK_KHR_ray_query">>}

DesiredChoices == {"B8G8R8A8_SRGB"}

\* A device that reports the first list of each kind has everything; the
\* devices explored differ from it in at most one of the three reports.
DeviceChoices ==
    LET q0 == <<QueueFamily(TRUE, TRUE), QueueFamily(TRUE, TRUE)>>
        f0 == <<SurfaceFormat("B8G8R8A8_SRGB", "SRGB_NONLINEAR"),
                SurfaceFormat("R8G8B8A8_UNORM", "SRGB_NONLINEAR")>>
        e0 == {"VK_KHR_swapchain", "VK_KHR_ray_query"}
    IN  {d \in [device_type : DeviceTypes, queue_families : QueueFamilyLists,
                surface_formats : SurfaceFormatLists, extensions : ExtensionSets] :
            \/ d.queue_families = q0 /\ d.surface_formats = f0
            \/ d.queue_families = q0 /\ d.extensions = e0
            \/ d.surface_formats = f0 /\ d.extensions = e0}

DeviceLists == UNION {[1..n -> DeviceChoices] : n \in 0..MaxDevices}

\* vk::ImageViewType
ViewTypeChoices ==
    {"TYPE_1D", "TYPE_1D_ARRAY", "TYPE_2D", "TYPE_2D_ARRAY", "CUBE", "CUBE_ARRAY",
     "TYPE_3D"}

NextLayoutChoices == {"Optimal", "General"}

AlignmentChoices == {16, 256}

\* The alignment get_buffer_memory_requirements reports for a buffer.
ReportedAlignmentChoices == {4, 64}

\* An allocator that honours the requested alignment returns an offset that
\* is a multiple of it; the allocations explored sit at three times it.
OffsetMultipliers == {3}

UsageChoices == {{"SAMPLED"}, {"COLOR_ATTACHMENT", "SAMPLED"}}

LevelIds == 0..MaxMips

VARIABLES pc, op, args, log, result, buffer, image, gm, last, sel

vars == <<pc, op, args, log, result, buffer, image, gm, last, sel>>

\* ------------------------------------------------------- integer helpers
Max(a, b) == IF a >= b THEN a ELSE b

\* A u32 is held as its 32-bit pattern read as a signed integer (TLC's
\* integers are 32 bits wide): a pattern below zero stands for the
\* value 2^32 + pattern, so -1 is u32::MAX.
U32Less(a, b) == IF (a < 0) = (b < 0) THEN a < b ELSE b < 0

\* `x as i32` for a u32 x keeps the bit pattern.
AsI32(x) == x

\* i32 division by two: Rust's `/` truncates toward zero.
I32Div2(x) == IF x >= 0 THEN x \div 2 ELSE -((-x) \div 2)

\* Faulty variant: the halving without the clamp to 1.
HalveExtent_NoClamp(x) == I32Div2(x)

\* (width / 2).max(1)
HalveExtent(x) == Max(I32Div2(x), 1)

\* u32 subtraction `mip_levels - 1` in a build without overflow checks:
\* 0 - 1 wraps to the pattern of u32::MAX.
WrappingSubOne(n) == n - 1

\* ------------------------------------------------------------ log entries
Call(name, obj, ok) == [kind |-> "call", name |-> name, obj |-> obj, ok |-> ok]

Transition(prev, next, layout, base, count, discard) ==
    [previous_accesses |-> prev, next_accesses |-> next, next_layout |-> layout,
     base_mip_level |-> base, level_count |-> count, discard_contents |-> discard]

Barrier(transitions) == [kind |-> "barrier", transitions |-> transitions]

Copy(level, w, h) == [kind |-> "copy", mip_level |-> level, width |-> w, height |-> h]

Blit(src, dst, sw, sh, dw, dh) ==
    [kind |-> "blit", src_level |-> src, dst_level |-> dst,
     src_width |-> sw, src_height |-> sh, dst_width |-> dw, dst_height |-> dh]

\* ------------------------------------------------------------------ state
NoArgs ==
    [bytes |-> <<>>, size |-> 0, alignment |-> 0, mip_levels |-> 0,
     width |-> 0, height |-> 0, next_accesses |-> <<>>, next_layout |-> "Optimal",
     usage |-> {}, debug |-> FALSE, view_ty |-> "TYPE_2D"]

\* A Buffer / Image value: state is none, building, live (owned by the caller)
\* or moved (consumed by cleanup_and_drop); destroyed and freed count the
\* destroy_* and allocator.free calls made for it.
NoBuffer ==
    [state |-> "none", mapped |-> FALSE, mem |-> <<>>, offset |-> 0,
     destroyed |-> 0, freed |-> 0]

NoImage == [state |-> "none", destroyed |-> 0, view_destroyed |-> 0, freed |-> 0]

NoGm == [i |-> 0, bound |-> 0, width |-> 0, height |-> 0]

NoLast == [name |-> "none", result |-> "none"]

\* select_physical_device's inputs and locals: the devices the instance
\* enumerates, the caller's required extensions and desired format, the device
\* the filter is at (i), what it found for it so far, the candidates that
\* passed, and the value returned (<<>> is None, <<x>> is Some(x)).
NoSel ==
    [devices |-> <<>>, required |-> <<>>, desired |-> "UNDEFINED", i |-> 0,
     queue_family |-> -1, surface_format |-> <<>>, candidates |-> <<>>,
     selection |-> <<>>]

Init ==
    /\ pc = "idle"
    /\ op = "none"
    /\ args = NoArgs
    /\ log = <<>>
    /\ result = "none"
    /\ buffer = NoBuffer
    /\ image = NoImage
    /\ gm = NoGm
    /\ last = NoLast
    /\ sel = NoSel

\* ------------------------------------------------------------ the `?` operator
\* Faulty variant: the call's failure is dropped and the constructor goes on.
PcAfter_IgnoreError(ok, next) == next

\* Where control goes after a fallible call followed by `?`.
PcAfter(ok, next) == IF ok THEN next ELSE "done"

ResultAfter(ok, next) ==
    IF ~ok THEN "Err" ELSE IF next = "done" THEN "Ok" ELSE result

\* A fallible device / allocator call at position `here`: the environment
\* decides whether it succeeds; a failure returns Err from the whole call.
FallibleCall(here, name, obj, next) ==
    /\ pc = here
    /\ \E ok \in BOOLEAN :
          /\ log' = Append(log, Call(name, obj, ok))
          /\ pc' = PcAfter(ok, next)
          /\ result' = ResultAfter(ok, next)

\* `if let Some(debug_utils_loader) = ... { set_object_name(...)?; }`
NameObject(here, obj, next) ==
    /\ pc = here
    /\ IF args.debug
       THEN \E ok \in BOOLEAN :
               /\ log' = Append(log, Call("set_object_name", obj, ok))
               /\ pc' = PcAfter(ok, next)
               /\ result' = ResultAfter(ok, next)
       ELSE /\ log' = log
            /\ pc' = next
            /\ result' = ResultAfter(TRUE, next)

\* ------------------------------------------------------------------ Buffer
ByteBased == {"Buffer::new", "Buffer::new_with_alignment", "load_image_from_bytes"}

WithAlignment == {"Buffer::new_with_alignment", "Buffer::new_of_size_with_alignment"}

\* bytes.len() as vk::DeviceSize, or the caller's size.
BufferSize == IF op \in ByteBased THEN Len(args.bytes) ELSE args.size

BufferLocation == IF op \in ByteBased THEN "CpuToGpu" ELSE "GpuOnly"

\* Where a Buffer constructor returns to.
AfterBuffer == IF op = "load_image_from_bytes" THEN "img_create" ELSE "done"

\* Faulty variant: the copy stops one byte short.
WriteAt_OneShort(mem, offset, bytes) ==
    [k \in 1..Len(mem) |->
        IF k > offset /\ k < offset + Len(bytes) THEN bytes[k - offset] ELSE mem[k]]

\* slice[offset..offset + bytes.len()].copy_from_slice(bytes)
WriteAt(mem, offset, bytes) ==
    [k \in 1..Len(mem) |->
        IF k > offset /\ k <= offset + Len(bytes) THEN bytes[k - offset] ELSE mem[k]]

CallBufferNew ==
    /\ pc = "idle"
    /\ \E bytes \in ByteSeqs, debug \in BOOLEAN :
          args' = [NoArgs EXCEPT !.bytes = bytes, !.debug = debug]
    /\ op' = "Buffer::new"
    /\ pc' = "buf_create"
    /\ UNCHANGED <<sel, log, result, buffer, image, gm, last>>

CallBufferNewWithAlignment ==
    /\ pc = "idle"
    /\ \E bytes \in ByteSeqs, debug \in BOOLEAN, alignment \in AlignmentChoices :
          args' = [NoArgs EXCEPT !.bytes = bytes, !.debug = debug,
                                 !.alignment = alignment]
    /\ op' = "Buffer::new_with_alignment"
    /\ pc' = "buf_create"
    /\ UNCHANGED <<sel, log, result, buffer, image, gm, last>>

CallBufferNewOfSize ==
    /\ pc = "idle"
    /\ \E size \in 0..MaxLen, debug \in BOOLEAN :
          args' = [NoArgs EXCEPT !.size = size, !.debug = debug]
    /\ op' = "Buffer::new_of_size"
    /\ pc' = "buf_create"
    /\ UNCHANGED <<sel, log, result, buffer, image, gm, last>>

CallBufferNewOfSizeWithAlignment ==
    /\ pc = "idle"
    /\ \E size \in 0..MaxLen, debug \in BOOLEAN, alignment \in AlignmentChoices :
          args' = [NoArgs EXCEPT !.size = size, !.debug = debug,
                                 !.alignment = alignment]
    /\ op' = "Buffer::new_of_size_with_alignment"
    /\ pc' = "buf_create"
    /\ UNCHANGED <<sel, log, result, buffer, image, gm, last>>

\* device.create_buffer(size, usage)?
BufCreate ==
    /\ FallibleCall("buf_create", "create_buffer", "buffer", "buf_allocate")
    /\ UNCHANGED <<sel, op, args, buffer, image, gm, last>>

\* Faulty variant: the caller's alignment is not written into the requirements.
RequirementAlignment_Reported(reported) == reported

\* requirements.alignment as handed to the allocator: the *_with_alignment
\* constructors overwrite the reported one with the caller's.
RequirementAlignment(reported) ==
    IF op \in WithAlignment THEN args.alignment ELSE reported

\* get_buffer_memory_requirements; allocator.allocate(...)?  The allocator
\* decides whether the allocation it returns is host-mapped, and places it at
\* a multiple of the alignment it was asked for.
BufAllocate ==
    /\ pc = "buf_allocate"
    /\ \E ok \in BOOLEAN, mapped \in BOOLEAN,
          reported \in ReportedAlignmentChoices, m \in OffsetMultipliers :
          LET next == IF op \in ByteBased THEN "buf_upload" ELSE "buf_bind" IN
          /\ log' = Append(log,
                [kind |-> "call", name |-> "allocate", obj |-> "buffer", ok |-> ok,
                 location |-> BufferLocation, linear |-> TRUE, size |-> BufferSize,
                 alignment |-> RequirementAlignment(reported)])
          /\ pc' = PcAfter(ok, next)
          /\ result' = ResultAfter(ok, next)
          /\ buffer' = IF ok
                       THEN [NoBuffer EXCEPT
                               !.state = "building",
                               !.mapped = mapped,
                               !.offset = m * RequirementAlignment(reported),
                               !.mem = IF mapped THEN [k \in 1..BufferSize |-> 170]
                                      ELSE <<>>]
                       ELSE buffer
    /\ UNCHANGED <<sel, op, args, image, gm, last>>

\* from_parts: allocation.mapped_slice_mut().unwrap(); slice[..len].copy_from_slice
BufUpload ==
    /\ pc = "buf_upload"
    /\ IF buffer.mapped
       THEN /\ buffer' = [buffer EXCEPT !.mem = WriteAt(buffer.mem, 0, args.bytes)]
            /\ pc' = "buf_bind"
            /\ result' = result
       ELSE /\ buffer' = buffer
            /\ pc' = "aborted"
            /\ result' = "Panic"
    /\ UNCHANGED <<sel, op, args, log, image, gm, last>>

\* device.bind_buffer_memory(buffer, allocation.memory(), allocation.offset())?
BufBind ==
    /\ pc = "buf_bind"
    /\ \E ok \in BOOLEAN :
          /\ log' = Append(log,
                [kind |-> "call", name |-> "bind_buffer_memory", obj |-> "buffer",
                 ok |-> ok, offset |-> buffer.offset])
          /\ pc' = PcAfter(ok, "buf_name")
          /\ result' = ResultAfter(ok, "buf_name")
    /\ UNCHANGED <<sel, op, args, buffer, image, gm, last>>

\* the optional debug name, then Ok(Self { buffer, allocation })
BufName ==
    /\ NameObject("buf_name", "buffer", AfterBuffer)
    /\ buffer' = IF result' # "Err" THEN [buffer EXCEPT !.state = "live"] ELSE buffer
    /\ UNCHANGED <<sel, op, args, image, gm, last>>

\* ------------------------------------------------------------------- Image
CallImageNew ==
    /\ pc = "idle"
    /\ \E w \in ExtentChoices, h \in ExtentChoices, levels \in 1..MaxMips,
          na \in NextAccessChoices, nl \in NextLayoutChoices,
          usage \in UsageChoices, debug \in BOOLEAN :
          args' = [NoArgs EXCEPT !.width = w, !.height = h, !.mip_levels = levels,
                                 !.next_accesses = na, !.next_layout = nl,
                                 !.usage = usage, !.debug = debug]
    /\ op' = "Image::new"
    /\ pc' = "img_create"
    /\ UNCHANGED <<sel, log, result, buffer, image, gm, last>>

\* The staged bytes of an upload do not steer the code: an empty and a
\* one-byte upload are explored.  Every view type is explored with every
\* mip_levels; the other inputs vary for 2D views.
CallLoadImageFromBytes ==
    /\ pc = "idle"
    /\ \E n \in 0..1, w \in ExtentChoices, h \in ExtentChoices,
          levels \in 1..MaxMips, na \in NextAccessChoices,
          nl \in NextLayoutChoices, debug \in BOOLEAN,
          view_ty \in ViewTypeChoices :
          /\ \/ view_ty = "TYPE_2D"
             \/ /\ n = 1 /\ w = 1 /\ h = 1 /\ ~debug
                /\ na = <<"FragmentShaderReadSampledImage">>
                /\ nl = "Optimal"
          /\ args' = [NoArgs EXCEPT !.bytes = [k \in 1..n |-> 255],
                                    !.width = w, !.height = h,
                                    !.mip_levels = levels,
                                    !.next_accesses = na, !.next_layout = nl,
                                    !.debug = debug, !.view_ty = view_ty]
    /\ op' = "load_image_from_bytes"
    /\ pc' = "buf_create"
    /\ UNCHANGED <<sel, log, result, buffer, image, gm, last>>

\* The usage flags the image is created with.
ImageUsage ==
    IF op = "Image::new"
    THEN {"TRANSFER_SRC"} \cup args.usage
    ELSE {"SAMPLED", "TRANSFER_DST"}
            \cup (IF args.mip_levels > 1 THEN {"TRANSFER_SRC"} ELSE {})

\* Faulty variant: a 2D image whatever the view type.
ty_from_view_ty_Always2D(ty) == "TYPE_2D"

\* The match of ty_from_view_ty; vk::ImageType::default() is TYPE_1D.
ty_from_view_ty(ty) ==
    CASE ty \in {"TYPE_1D", "TYPE_1D_ARRAY"} -> "TYPE_1D"
      [] ty \in {"TYPE_2D", "TYPE_2D_ARRAY", "CUBE", "CUBE_ARRAY"} -> "TYPE_2D"
      [] ty = "TYPE_3D" -> "TYPE_3D"
      [] OTHER -> "TYPE_1D"

\* The view type of the image's view: ImageDescriptor has none and Image::new
\* always makes a 2D view; load_image_from_bytes takes view_ty.
ImageViewType == IF op = "Image::new" THEN "TYPE_2D" ELSE args.view_ty

\* .image_type(..) of the create info.
ImageType ==
    IF op = "Image::new" THEN "TYPE_2D" ELSE ty_from_view_ty(args.view_ty)

\* device.create_image(...)?
ImgCreate ==
    /\ pc = "img_create"
    /\ \E ok \in BOOLEAN :
          /\ log' = Append(log,
                [kind |-> "call", name |-> "create_image", obj |-> "image", ok |-> ok,
                 mip_levels |-> args.mip_levels, usage |-> ImageUsage,
                 image_type |-> ImageType])
          /\ pc' = PcAfter(ok, "img_allocate")
          /\ result' = ResultAfter(ok, "img_allocate")
          /\ image' = IF ok THEN [NoImage EXCEPT !.state = "building"] ELSE image
    /\ UNCHANGED <<sel, op, args, buffer, gm, last>>

\* get_image_memory_requirements; allocator.allocate(GpuOnly, linear: false)?
ImgAllocate ==
    /\ pc = "img_allocate"
    /\ \E ok \in BOOLEAN :
          /\ log' = Append(log,
                [kind |-> "call", name |-> "allocate", obj |-> "image", ok |-> ok,
                 location |-> "GpuOnly", linear |-> FALSE])
          /\ pc' = PcAfter(ok, "img_bind")
          /\ result' = ResultAfter(ok, "img_bind")
    /\ UNCHANGED <<sel, op, args, buffer, image, gm, last>>

\* device.bind_image_memory(image, allocation.memory(), allocation.offset())?
ImgBind ==
    /\ FallibleCall("img_bind", "bind_image_memory", "image", "img_name")
    /\ UNCHANGED <<sel, op, args, buffer, image, gm, last>>

\* the optional debug name of the image
ImgName ==
    /\ NameObject("img_name", "image",
                  IF op = "Image::new" THEN "img_barrier" ELSE "img_view")
    /\ UNCHANGED <<sel, op, args, buffer, image, gm, last>>

\* Faulty variant: the first-use barrier covers level 0 only.
ImageNewTransitions_Level0Only(levels, na, nl) ==
    <<Transition(<<"Nothing">>, na, nl, 0, 1, TRUE)>>

\* Image::new's first-use barrier.
ImageNewTransitions(levels, na, nl) ==
    <<Transition(<<"Nothing">>, na, nl, 0, levels, TRUE)>>

\* Image::new: the barrier is recorded before the view is created.
ImgBarrier ==
    /\ pc = "img_barrier"
    /\ log' = Append(log, Barrier(ImageNewTransitions(args.mip_levels,
                                     args.next_accesses, args.next_layout)))
    /\ pc' = "img_view"
    /\ UNCHANGED <<sel, op, args, result, buffer, image, gm, last>>

\* device.create_image_view(...)?
ImgView ==
    /\ pc = "img_view"
    /\ \E ok \in BOOLEAN :
          /\ log' = Append(log,
                [kind |-> "call", name |-> "create_image_view", obj |-> "view",
                 ok |-> ok, view_type |-> ImageViewType])
          /\ pc' = PcAfter(ok, "img_view_name")
          /\ result' = ResultAfter(ok, "img_view_name")
    /\ UNCHANGED <<sel, op, args, buffer, image, gm, last>>

\* the optional debug name of the view; Image::new then returns Ok(Self)
ImgViewName ==
    /\ NameObject("img_view_name", "view",
                  IF op = "Image::new" THEN "done" ELSE "load_barrier_dst")
    /\ image' = IF op = "Image::new" /\ result' = "Ok"
                THEN [image EXCEPT !.state = "live"] ELSE image
    /\ UNCHANGED <<sel, op, args, buffer, gm, last>>

\* --------------------------------------------------- load_image_from_bytes
\* Faulty variant: only level 0 is moved to transfer-destination.
LoadDstTransitions_Level0Only(levels) ==
    <<Transition(<<>>, <<"TransferWrite">>, "Optimal", 0, 1, TRUE)>>

\* The whole image to transfer-destination, contents discarded.
LoadDstTransitions(levels) ==
    <<Transition(<<>>, <<"TransferWrite">>, "Optimal", 0, levels, TRUE)>>

LoadBarrierDst ==
    /\ pc = "load_barrier_dst"
    /\ log' = Append(log, Barrier(LoadDstTransitions(args.mip_levels)))
    /\ pc' = "load_copy"
    /\ UNCHANGED <<sel, op, args, result, buffer, image, gm, last>>

\* cmd_copy_buffer_to_image into mip level 0, then the branch on mip_levels > 1
LoadCopy ==
    /\ pc = "load_copy"
    /\ log' = Append(log, Copy(0, args.width, args.height))
    /\ pc' = IF args.mip_levels > 1 THEN "load_barrier_base" ELSE "load_barrier_final"
    /\ UNCHANGED <<sel, op, args, result, buffer, image, gm, last>>

\* Faulty variant: the copy's write is not declared as the previous access.
LoadBaseTransitions_NoPrevious ==
    <<Transition(<<>>, <<"TransferRead">>, "Optimal", 0, 1, FALSE)>>

\* Faulty variant: every level is made a blit source.
LoadBaseTransitions_AllLevels ==
    <<Transition(<<"TransferWrite">>, <<"TransferRead">>, "Optimal", 0,
                 args.mip_levels, FALSE)>>

\* Level 0 from the copy's write to a blit source.
LoadBaseTransitions ==
    <<Transition(<<"TransferWrite">>, <<"TransferRead">>, "Optimal", 0, 1, FALSE)>>

\* mip_levels > 1: the base-level barrier, then the call of generate_mips
LoadBarrierBase ==
    /\ pc = "load_barrier_base"
    /\ log' = Append(log, Barrier(LoadBaseTransitions))
    /\ gm' = [NoGm EXCEPT !.width = AsI32(args.width), !.height = AsI32(args.height)]
    /\ pc' = "gm_enter"
    /\ UNCHANGED <<sel, op, args, result, buffer, image, last>>

\* Faulty variant: the staging buffer is cleaned up before the call returns.
ReturnedStaging_CleanedUp(buf) ==
    [buf EXCEPT !.destroyed = @ + 1, !.freed = @ + 1, !.state = "moved"]

\* Ok((image, staging_buffer)): the staging buffer is moved to the caller as
\* it is.
ReturnedStaging(buf) == buf

\* The single-level path's barrier to the caller's state.
LoadFinalTransitions(levels, na, nl) ==
    <<Transition(<<"TransferWrite">>, na, nl, 0, levels, FALSE)>>

\* mip_levels <= 1: one barrier, then Ok((Image, staging_buffer))
LoadBarrierFinal ==
    /\ pc = "load_barrier_final"
    /\ log' = Append(log, Barrier(LoadFinalTransitions(args.mip_levels,
                                      args.next_accesses, args.next_layout)))
    /\ image' = [image EXCEPT !.state = "live"]
    /\ buffer' = ReturnedStaging(buffer)
    /\ pc' = "done"
    /\ result' = "Ok"
    /\ UNCHANGED <<sel, op, args, gm, last>>

\* ----------------------------------------------------------- generate_mips
\* The caller holds the precondition: level 0 is a blit source, the other
\* levels are blit destinations.
CallGenerateMips ==
    /\ pc = "idle"
    /\ \E w \in SignedExtentChoices, h \in SignedExtentChoices,
          levels \in 0..MaxMips,
          na \in NextAccessChoices, nl \in NextLayoutChoices :
          /\ args' = [NoArgs EXCEPT !.width = w, !.height = h, !.mip_levels = levels,
                                    !.next_accesses = na, !.next_layout = nl]
          /\ gm' = [NoGm EXCEPT !.width = w, !.height = h]
    /\ op' = "generate_mips"
    /\ pc' = "gm_enter"
    /\ UNCHANGED <<sel, log, result, buffer, image, last>>

\* `0..mip_levels - 1`: the u32 subtraction wraps in a build without
\* overflow checks.
GmEnter ==
    /\ pc = "gm_enter"
    /\ gm' = [gm EXCEPT !.i = 0, !.bound = WrappingSubOne(args.mip_levels)]
    /\ pc' = "gm_loop"
    /\ UNCHANGED <<sel, op, args, log, result, buffer, image, last>>

\* ... and panics in a build with overflow checks.
GmEnterOverflow ==
    /\ pc = "gm_enter"
    /\ args.mip_levels = 0
    /\ pc' = "aborted"
    /\ result' = "Panic"
    /\ UNCHANGED <<sel, op, args, log, buffer, image, gm, last>>

\* cmd_blit_image level i -> i + 1 (the loop is cut off after MaxMips rounds)
GmBlit ==
    /\ pc = "gm_loop"
    /\ U32Less(gm.i, gm.bound)
    /\ gm.i < MaxMips
    /\ log' = Append(log, Blit(gm.i, gm.i + 1, gm.width, gm.height,
                               HalveExtent(gm.width), HalveExtent(gm.height)))
    /\ pc' = "gm_barrier"
    /\ UNCHANGED <<sel, op, args, result, buffer, image, gm, last>>

\* Faulty variant: the blit's source level is never moved to the final state.
MipBarrierTransitions_SourceKept(i, levels, na, nl) ==
    <<Transition(<<"TransferWrite">>,
                 IF i + 1 = WrappingSubOne(levels) THEN na ELSE <<"TransferRead">>,
                 IF i + 1 = WrappingSubOne(levels) THEN nl ELSE "Optimal",
                 i + 1, 1, FALSE)>>

\* Faulty variant: the last level is treated as one more blit source.
MipBarrierTransitions_LastAsSource(i, levels, na, nl) ==
    <<Transition(<<"TransferRead">>, na, nl, i, 1, FALSE),
      Transition(<<"TransferWrite">>, <<"TransferRead">>, "Optimal", i + 1, 1, FALSE)>>

\* The two transitions batched after the blit of level i into level i + 1.
MipBarrierTransitions(i, levels, na, nl) ==
    <<Transition(<<"TransferRead">>, na, nl, i, 1, FALSE),
      Transition(<<"TransferWrite">>,
                 IF i + 1 = WrappingSubOne(levels) THEN na ELSE <<"TransferRead">>,
                 IF i + 1 = WrappingSubOne(levels) THEN nl ELSE "Optimal",
                 i + 1, 1, FALSE)>>

\* Faulty variant: one pipeline_barrier command per transition.
GmBarrier_TwoCommands ==
    /\ pc = "gm_barrier"
    /\ LET ts == MipBarrierTransitions(gm.i, args.mip_levels,
                                       args.next_accesses, args.next_layout)
       IN  log' = Append(Append(log, Barrier(<<ts[1]>>)), Barrier(<<ts[2]>>))
    /\ gm' = [gm EXCEPT !.i = gm.i + 1,
                        !.width = HalveExtent(gm.width),
                        !.height = HalveExtent(gm.height)]
    /\ pc' = "gm_loop"
    /\ UNCHANGED <<sel, op, args, result, buffer, image, last>>

\* pipeline_barrier, then width and height are halved
GmBarrier ==
    /\ pc = "gm_barrier"
    /\ log' = Append(log, Barrier(MipBarrierTransitions(gm.i, args.mip_levels,
                                      args.next_accesses, args.next_layout)))
    /\ gm' = [gm EXCEPT !.i = gm.i + 1,
                        !.width = HalveExtent(gm.width),
                        !.height = HalveExtent(gm.height)]
    /\ pc' = "gm_loop"
    /\ UNCHANGED <<sel, op, args, result, buffer, image, last>>

\* the loop is over: generate_mips returns, and so does load_image_from_bytes
GmExit ==
    /\ pc = "gm_loop"
    /\ ~U32Less(gm.i, gm.bound)
    /\ pc' = "done"
    /\ result' = "Ok"
    /\ image' = IF op = "load_image_from_bytes"
                THEN [image EXCEPT !.state = "live"] ELSE image
    /\ buffer' = IF op = "load_image_from_bytes"
                 THEN ReturnedStaging(buffer) ELSE buffer
    /\ UNCHANGED <<sel, op, args, log, gm, last>>

\* ------------------------------------------------- methods on the values
BufferConstructors ==
    {"Buffer::new", "Buffer::new_with_alignment", "Buffer::new_of_size",
     "Buffer::new_of_size_with_alignment"}

\* Faulty variant: an unmapped allocation is unwrapped instead of reported.
WriteMappedOutcome_Unwrap(buf, bytes, offset) ==
    IF ~buf.mapped \/ offset + Len(bytes) > Len(buf.mem)
    THEN [buffer |-> buf, result |-> "Panic"]
    ELSE [buffer |-> [buf EXCEPT !.mem = WriteAt(buf.mem, offset, bytes)],
          result |-> "Ok"]

\* Faulty variant: the bytes go to the start of the slice, not to offset.
WriteMappedOutcome_IgnoresOffset(buf, bytes, offset) ==
    IF ~buf.mapped
    THEN [buffer |-> buf, result |-> "Err"]
    ELSE IF offset + Len(bytes) > Len(buf.mem)
    THEN [buffer |-> buf, result |-> "Panic"]
    ELSE [buffer |-> [buf EXCEPT !.mem = WriteAt(buf.mem, 0, bytes)],
          result |-> "Ok"]

\* write_mapped: Err when the allocation is not mapped, a panic of the slice
\* index when the range is out of the mapped slice, else the copy.
WriteMappedOutcome(buf, bytes, offset) ==
    IF ~buf.mapped
    THEN [buffer |-> buf, result |-> "Err"]
    ELSE IF offset + Len(bytes) > Len(buf.mem)
    THEN [buffer |-> buf, result |-> "Panic"]
    ELSE [buffer |-> [buf EXCEPT !.mem = WriteAt(buf.mem, offset, bytes)],
          result |-> "Ok"]

\* Explored on the buffers the Buffer constructors return, before the caller
\* cleans them up.
WriteMapped ==
    /\ pc = "done"
    /\ result = "Ok"
    /\ op \in BufferConstructors
    /\ buffer.state = "live"
    /\ buffer.destroyed = 0
    /\ \E bytes \in ByteSeqs, offset \in 0..MaxLen :
          LET out == WriteMappedOutcome(buffer, bytes, offset) IN
          /\ buffer' = out.buffer
          /\ last' = [name |-> "write_mapped", result |-> out.result]
          /\ pc' = IF out.result = "Panic" THEN "aborted" ELSE pc
    /\ UNCHANGED <<sel, op, args, log, result, image, gm>>

\* Buffer::cleanup(&self): destroy_buffer, then allocator.free(clone)?
BufferCleanup ==
    /\ pc = "done"
    /\ result = "Ok"
    /\ buffer.state = "live"
    /\ buffer.destroyed < MaxCleanups
    /\ buffer' = [buffer EXCEPT !.destroyed = @ + 1, !.freed = @ + 1]
    /\ \E ok \in BOOLEAN :
          last' = [name |-> "Buffer::cleanup", result |-> IF ok THEN "Ok" ELSE "Err"]
    /\ UNCHANGED <<sel, pc, op, args, log, result, image, gm>>

\* Buffer::cleanup_and_drop(self): the same, and the value is consumed.
BufferCleanupAndDrop ==
    /\ pc = "done"
    /\ result = "Ok"
    /\ buffer.state = "live"
    /\ buffer.destroyed < MaxCleanups
    /\ buffer' = [buffer EXCEPT !.destroyed = @ + 1, !.freed = @ + 1,
                                !.state = "moved"]
    /\ \E ok \in BOOLEAN :
          last' = [name |-> "Buffer::cleanup_and_drop",
                   result |-> IF ok THEN "Ok" ELSE "Err"]
    /\ UNCHANGED <<sel, pc, op, args, log, result, image, gm>>

\* Image::cleanup(&self): destroy_image_view, destroy_image, allocator.free(clone)?
ImageCleanup ==
    /\ pc = "done"
    /\ result = "Ok"
    /\ image.state = "live"
    /\ image.destroyed < MaxCleanups
    /\ image' = [image EXCEPT !.view_destroyed = @ + 1, !.destroyed = @ + 1,
                              !.freed = @ + 1]
    /\ \E ok \in BOOLEAN :
          last' = [name |-> "Image::cleanup", result |-> IF ok THEN "Ok" ELSE "Err"]
    /\ UNCHANGED <<sel, pc, op, args, log, result, buffer, gm>>

\* ------------------------------------------------------------ specification
\* ======================================================================
\* select_physical_device
\* ======================================================================
CallSelectPhysicalDevice ==
    /\ pc = "idle"
    /\ \E devices \in DeviceLists, required \in RequiredChoices,
          desired \in DesiredChoices :
          sel' = [NoSel EXCEPT !.devices = devices, !.required = required,
                               !.desired = desired]
    /\ op' = "select_physical_device"
    /\ pc' = "sel_enumerate"
    /\ UNCHANGED <<args, log, result, buffer, image, gm, last>>

\* The filter_map closure is done with device i (it returned None or Some):
\* the iterator goes to the next device, or max_by_key has seen them all.
PcNextDevice == IF sel.i < Len(sel.devices) THEN "sel_queue" ELSE "sel_pick"

\* instance.enumerate_physical_devices()?
SelEnumerate ==
    /\ pc = "sel_enumerate"
    /\ \E ok \in BOOLEAN :
          /\ log' = Append(log, Call("enumerate_physical_devices", "instance", ok))
          /\ pc' = PcAfter(ok, PcNextDevice)
          /\ result' = IF ok THEN result ELSE "Err"
          /\ sel' = IF ok /\ Len(sel.devices) > 0 THEN [sel EXCEPT !.i = 1] ELSE sel
    /\ UNCHANGED <<op, args, buffer, image, gm, last>>

\* Faulty variant: the last qualifying family.
Position_Last(families) ==
    LET hits == {k \in 1..Len(families) :
                    families[k].graphics /\ families[k].present}
    IN  IF hits = {} THEN -1
        ELSE (CHOOSE k \in hits : \A j \in hits : j <= k) - 1

\* .enumerate().position(|..| GRAPHICS && surface support): the index, from 0,
\* of the first family with both; -1 stands for None.
Position(families) ==
    LET hits == {k \in 1..Len(families) :
                    families[k].graphics /\ families[k].present}
    IN  IF hits = {} THEN -1
        ELSE (CHOOSE k \in hits : \A j \in hits : k <= j) - 1

\* The families get_physical_device_surface_support is called for: `&&` skips
\* it for a family without GRAPHICS, position stops at the first hit.
SupportQueried(families) ==
    {k \in 1..Len(families) :
        /\ families[k].graphics
        /\ Position(families) = -1 \/ k <= Position(families) + 1}

\* The queue family search.  A failing surface-support query is unwrapped.
SelQueueFamily ==
    /\ pc = "sel_queue"
    /\ LET families == sel.devices[sel.i].queue_families IN
       \E ok \in BOOLEAN :
          /\ ok \/ SupportQueried(families) # {}
          /\ log' = IF SupportQueried(families) = {} THEN log
                    ELSE Append(log,
                           Call("get_physical_device_surface_support", sel.i, ok))
          /\ IF ~ok
             THEN pc' = "aborted" /\ result' = "Panic" /\ sel' = sel
             ELSE IF Position(families) = -1
             THEN /\ pc' = PcNextDevice
                  /\ result' = result
                  /\ sel' = [sel EXCEPT !.i = IF sel.i < Len(sel.devices)
                                               THEN sel.i + 1 ELSE sel.i]
             ELSE /\ pc' = "sel_formats"
                  /\ result' = result
                  /\ sel' = [sel EXCEPT !.queue_family = Position(families)]
    /\ UNCHANGED <<op, args, buffer, image, gm, last>>

\* Faulty variant: the colour space is not looked at.
IsDesired_AnyColorSpace(f, desired) == f.format = desired

IsDesired(f, desired) ==
    f.format = desired /\ f.color_space = "SRGB_NONLINEAR"

\* .iter().find(..): the first element the predicate holds for, if any.
RECURSIVE Find(_, _, _)
Find(formats, desired, k) ==
    IF k > Len(formats) THEN <<>>
    ELSE IF IsDesired(formats[k], desired) THEN <<formats[k]>>
    ELSE Find(formats, desired, k + 1)

\* .find(..).or_else(|| surface_formats.get(0))
SelectSurfaceFormat(formats, desired) ==
    IF Find(formats, desired, 1) # <<>> THEN Find(formats, desired, 1)
    ELSE IF Len(formats) > 0 THEN <<formats[1]>>
    ELSE <<>>

\* get_physical_device_surface_formats(..).unwrap() and the format choice.
SelSurfaceFormats ==
    /\ pc = "sel_formats"
    /\ LET chosen == SelectSurfaceFormat(sel.devices[sel.i].surface_formats,
                                         sel.desired) IN
       \E ok \in BOOLEAN :
          /\ log' = Append(log,
                       Call("get_physical_device_surface_formats", sel.i, ok))
          /\ IF ~ok
             THEN pc' = "aborted" /\ result' = "Panic" /\ sel' = sel
             ELSE IF chosen = <<>>
             THEN /\ pc' = PcNextDevice
                  /\ result' = result
                  /\ sel' = [sel EXCEPT !.queue_family = -1,
                                        !.i = IF sel.i < Len(sel.devices)
                                               THEN sel.i + 1 ELSE sel.i]
             ELSE /\ pc' = "sel_extensions"
                  /\ result' = result
                  /\ sel' = [sel EXCEPT !.surface_format = chosen]
    /\ UNCHANGED <<op, args, buffer, image, gm, last>>

\* Faulty variant: `=` where the loop has `&=`.
HasRequiredExtensions_LastOnly(supported, required, n) ==
    IF n = 0 THEN TRUE ELSE required[n] \in supported

\* has_required_extensions after the loop has seen the first n required names.
RECURSIVE HasRequiredExtensions(_, _, _)
HasRequiredExtensions(supported, required, n) ==
    IF n = 0 THEN TRUE
    ELSE HasRequiredExtensions(supported, required, n - 1)
            /\ required[n] \in supported

\* enumerate_device_extension_properties(..).unwrap(), the required-extension
\* loop, and the closure's Some((physical_device, queue_family, surface_format,
\* properties)).
SelExtensions ==
    /\ pc = "sel_extensions"
    /\ LET d == sel.devices[sel.i]
           candidate == [device |-> sel.i, queue_family |-> sel.queue_family,
                         surface_format |-> sel.surface_format[1],
                         device_type |-> d.device_type]
           advanced == [sel EXCEPT !.queue_family = -1, !.surface_format = <<>>,
                                   !.i = IF sel.i < Len(sel.devices)
                                          THEN sel.i + 1 ELSE sel.i]
       IN
       \E ok \in BOOLEAN :
          /\ log' = Append(log,
                       Call("enumerate_device_extension_properties", sel.i, ok))
          /\ IF ~ok
             THEN pc' = "aborted" /\ result' = "Panic" /\ sel' = sel
             ELSE /\ pc' = PcNextDevice
                  /\ result' = result
                  /\ sel' = IF HasRequiredExtensions(d.extensions, sel.required,
                                                     Len(sel.required))
                            THEN [advanced EXCEPT
                                    !.candidates = Append(sel.candidates, candidate)]
                            ELSE advanced
    /\ UNCHANGED <<op, args, buffer, image, gm, last>>

\* Faulty variant: integrated ranked above discrete.
Rank_IntegratedFirst(device_type) ==
    IF device_type = "DISCRETE_GPU" THEN 1
    ELSE IF device_type = "INTEGRATED_GPU" THEN 2
    ELSE 0

\* The key of max_by_key.
Rank(device_type) ==
    IF device_type = "DISCRETE_GPU" THEN 2
    ELSE IF device_type = "INTEGRATED_GPU" THEN 1
    ELSE 0

\* One step of Iterator::max_by_key's fold: x is the maximum so far, y the
\* next element; x is kept only if its key is strictly greater.
Keep(x, y) == IF Rank(x.device_type) > Rank(y.device_type) THEN x ELSE y

\* Iterator::max_by_key over the first n candidates (n >= 1).
RECURSIVE MaxByKey(_, _)
MaxByKey(candidates, n) ==
    IF n = 1 THEN candidates[1]
    ELSE Keep(MaxByKey(candidates, n - 1), candidates[n])

\* max_by_key and Ok(match selection { Some(..) => Some((physical_device,
\* queue_family, surface_format)), None => None }).
SelPick ==
    /\ pc = "sel_pick"
    /\ sel' = [sel EXCEPT !.selection =
                 IF Len(sel.candidates) = 0 THEN <<>>
                 ELSE LET c == MaxByKey(sel.candidates, Len(sel.candidates))
                      IN  <<[device |-> c.device, queue_family |-> c.queue_family,
                             surface_format |-> c.surface_format]>>]
    /\ pc' = "done"
    /\ result' = "Ok"
    /\ UNCHANGED <<op, args, log, buffer, image, gm, last>>

Next ==
    \/ CallBufferNew
    \/ CallBufferNewWithAlignment
    \/ CallBufferNewOfSize
    \/ CallBufferNewOfSizeWithAlignment
    \/ CallImageNew
    \/ CallLoadImageFromBytes
    \/ CallGenerateMips
    \/ BufCreate
    \/ BufAllocate
    \/ BufUpload
    \/ BufBind
    \/ BufName
    \/ ImgCreate
    \/ ImgAllocate
    \/ ImgBind
    \/ ImgName
    \/ ImgBarrier
    \/ ImgView
    \/ ImgViewName
    \/ LoadBarrierDst
    \/ LoadCopy
    \/ LoadBarrierBase
    \/ LoadBarrierFinal
    \/ GmEnter
    \/ GmEnterOverflow
    \/ GmBlit
    \/ GmBarrier
    \/ GmExit
    \/ WriteMapped
    \/ BufferCleanup
    \/ BufferCleanupAndDrop
    \/ ImageCleanup

Spec == Init /\ [][Next]_vars

\* select_physical_device on its own.
NextSelect ==
    \/ CallSelectPhysicalDevice
    \/ SelEnumerate
    \/ SelQueueFamily
    \/ SelSurfaceFormats
    \/ SelExtensions
    \/ SelPick

SpecSelect == Init /\ [][NextSelect]_vars

\* ======================================================================
\* What the recorded commands do to the image's mip levels
\* ======================================================================
\* A level's state: acc / layout are the access set and layout the last
\* barrier covering it declared, last is the access last performed on it or
\* declared for it.
Fresh == [acc |-> <<>>, layout |-> "Undefined", last |-> <<>>]

InState(accesses, layout) == [acc |-> accesses, layout |-> layout, last |-> accesses]

TransferDst == InState(<<"TransferWrite">>, "Optimal")

TransferSrc == InState(<<"TransferRead">>, "Optimal")

FinalState == InState(args.next_accesses, args.next_layout)

\* A generate_mips caller holds its precondition; a new image is fresh.
InitialLevels ==
    [l \in LevelIds |->
        IF op = "generate_mips" /\ l = 0 THEN TransferSrc
        ELSE IF op = "generate_mips" /\ l < args.mip_levels THEN TransferDst
        ELSE Fresh]

Covers(t, l) == l >= t.base_mip_level /\ l < t.base_mip_level + t.level_count

RECURSIVE ApplyTransitions(_, _, _)
ApplyTransitions(lv, ts, n) ==
    IF n = 0 THEN lv
    ELSE LET before == ApplyTransitions(lv, ts, n - 1) IN
         [l \in LevelIds |->
             IF Covers(ts[n], l)
             THEN InState(ts[n].next_accesses, ts[n].next_layout)
             ELSE before[l]]

ApplyEntry(lv, e) ==
    IF e.kind = "barrier" THEN ApplyTransitions(lv, e.transitions, Len(e.transitions))
    ELSE IF e.kind = "copy"
    THEN [lv EXCEPT ![e.mip_level].last = <<"TransferWrite">>]
    ELSE IF e.kind = "blit"
    THEN [lv EXCEPT ![e.src_level].last = <<"TransferRead">>,
                    ![e.dst_level].last = <<"TransferWrite">>]
    ELSE lv

\* The levels' states after the first k entries of the log.
RECURSIVE LevelsAfter(_)
LevelsAfter(k) == IF k = 0 THEN InitialLevels ELSE ApplyEntry(LevelsAfter(k - 1), log[k])

LevelsNow == LevelsAfter(Len(log))

\* "Nothing" and the empty slice both declare no prior access.
NoNothing(accesses) == SelectSeq(accesses, LAMBDA a : a # "Nothing")

Returned(name) == op = name /\ pc = "done" /\ result = "Ok"

Transient == {<<"TransferWrite">>, <<"TransferRead">>}

Blits == SelectSeq(log, LAMBDA e : e.kind = "blit")

\* The (entry, transition) places of the log that move level l to the
\* caller's final access / layout.
FinalTransitionsOf(l) ==
    {<<k, j>> \in (1..Len(log)) \X (1..2) :
        /\ log[k].kind = "barrier"
        /\ j <= Len(log[k].transitions)
        /\ Covers(log[k].transitions[j], l)
        /\ log[k].transitions[j].next_accesses = args.next_accesses
        /\ log[k].transitions[j].next_layout = args.next_layout}

\* ======================================================================
\* Claims
\* ======================================================================

\* C1: after load_image_from_bytes returns Ok, for every mip_levels >= 1, every
\* level 0..mip_levels-1 is in the caller's next_accesses / next_layout (the
\* last transition recorded for it targets that state) and none is left in
\* the transient TransferWrite or TransferRead state.
C1_LoadLeavesEveryLevelFinal ==
    (Returned("load_image_from_bytes") /\ args.mip_levels >= 1) =>
        \A l \in 0..(args.mip_levels - 1) :
            /\ LevelsNow[l] = FinalState
            /\ LevelsNow[l].acc \notin Transient

C1_Witness ==
    /\ Returned("load_image_from_bytes")
    /\ args.mip_levels >= 3
    /\ \A l \in 0..(args.mip_levels - 1) : LevelsNow[l] = FinalState

\* C2: generate_mips called with mip_levels >= 1 and its precondition holding
\* leaves every level 0..mip_levels-1 in the caller's next_accesses /
\* next_layout at exit, the call with mip_levels = 1 included.
C2_GenerateMipsLeavesEveryLevelFinal ==
    (Returned("generate_mips") /\ args.mip_levels >= 1) =>
        \A l \in 0..(args.mip_levels - 1) : LevelsNow[l] = FinalState

\* C3: every barrier recorded by load_image_from_bytes and generate_mips
\* declares as previous accesses the access last performed or declared on
\* every level it covers (none for a fresh image).
C3_PreviousAccessIsTheLastAccess ==
    op \in {"load_image_from_bytes", "generate_mips"} =>
        \A k \in 1..Len(log) :
            log[k].kind = "barrier" =>
                \A j \in 1..Len(log[k].transitions) : \A l \in LevelIds :
                    Covers(log[k].transitions[j], l) =>
                        NoNothing(log[k].transitions[j].previous_accesses)
                            = NoNothing(LevelsAfter(k - 1)[l].last)

C3_Witness ==
    /\ Returned("load_image_from_bytes")
    /\ args.mip_levels >= 3
    /\ \E k \in 1..Len(log) :
          /\ log[k].kind = "barrier"
          /\ Len(log[k].transitions) = 2
          /\ log[k].transitions[1].previous_accesses = <<"TransferRead">>
          /\ LevelsAfter(k - 1)[log[k].transitions[1].base_mip_level].last
                = <<"TransferRead">>

\* C4: in load_image_from_bytes, when the copy is recorded level 0 is in
\* transfer-destination state; when the blit of level i into level i+1 is
\* recorded level i is in transfer-source state and level i+1 (and every
\* level after it) in transfer-destination state.
C4_TransfersFindTheirLevelsReady ==
    op = "load_image_from_bytes" =>
        \A k \in 1..Len(log) :
            /\ log[k].kind = "copy" =>
                  LevelsAfter(k - 1)[log[k].mip_level] = TransferDst
            /\ log[k].kind = "blit" =>
                  /\ LevelsAfter(k - 1)[log[k].src_level] = TransferSrc
                  /\ \A l \in log[k].dst_level..(args.mip_levels - 1) :
                        LevelsAfter(k - 1)[l] = TransferDst

C4_Witness ==
    /\ Returned("load_image_from_bytes")
    /\ Len(Blits) >= 2
    /\ \E k \in 1..Len(log) :
          /\ log[k].kind = "blit"
          /\ log[k].src_level = 1
          /\ LevelsAfter(k - 1)[1] = TransferSrc
          /\ LevelsAfter(k - 1)[2] = TransferDst

ShiftRight(w, i) == w \div (2 ^ i)

\* C6: for a base extent (W, H) with W, H >= 1, the extent generate_mips uses
\* for level i is max(1, W >> i) x max(1, H >> i): as the source extent of the
\* blit reading level i and as the destination extent of the blit writing it.
C6_LevelExtentIsTheShiftFormula ==
    (op \in {"generate_mips", "load_image_from_bytes"}
        /\ AsI32(args.width) >= 1 /\ AsI32(args.height) >= 1) =>
        \A k \in 1..Len(log) :
            log[k].kind = "blit" =>
                /\ log[k].src_width = Max(1, ShiftRight(args.width, log[k].src_level))
                /\ log[k].src_height = Max(1, ShiftRight(args.height, log[k].src_level))
                /\ log[k].dst_width = Max(1, ShiftRight(args.width, log[k].dst_level))
                /\ log[k].dst_height = Max(1, ShiftRight(args.height, log[k].dst_level))

C6_Witness ==
    /\ Returned("generate_mips")
    /\ args.width = 2 /\ args.height = 1
    /\ Len(Blits) = 3
    /\ Blits[1].src_width = 2 /\ Blits[1].dst_width = 1 /\ Blits[1].dst_height = 1
    /\ Blits[2].dst_width = 1 /\ Blits[3].src_width = 1 /\ Blits[3].dst_width = 1

\* C7: over any sequence of cleanup / cleanup_and_drop calls on a Buffer or an
\* Image, its allocation is freed at most once and its native handles are
\* destroyed at most once.
C7_ReleasedAtMostOnce ==
    /\ buffer.destroyed <= 1 /\ buffer.freed <= 1
    /\ image.destroyed <= 1 /\ image.view_destroyed <= 1 /\ image.freed <= 1

FailedCall(e) == e.kind = "call" /\ ~e.ok

\* C8: in the constructors, a failing step (create, allocate, bind, create
\* view) ends the call with that failure: it is the last thing the call did,
\* nothing is recorded after it, and no step is made twice.
C8_FailureReturnsAtOnce ==
    /\ \A k \in 1..Len(log) :
          FailedCall(log[k]) => (k = Len(log) /\ pc = "done" /\ result = "Err")
    /\ \A j \in 1..Len(log) : \A k \in (j + 1)..Len(log) :
          (log[j].kind = "call" /\ log[k].kind = "call") =>
              ~(log[j].name = log[k].name /\ log[j].obj = log[k].obj)
    /\ (pc = "done" /\ result = "Err") => (Len(log) > 0 /\ FailedCall(log[Len(log)]))

C8_Witness ==
    /\ op = "load_image_from_bytes"
    /\ pc = "done" /\ result = "Err"
    /\ FailedCall(log[Len(log)])
    /\ log[Len(log)].name = "create_image_view"
    /\ \A k \in 1..Len(log) : log[k].kind = "call"

\* C9: debug naming never affects the outcome: a creation call all of whose
\* other steps succeed returns Ok whether the naming capability is absent,
\* succeeds or fails.
C9_NamingNeverAffectsTheOutcome ==
    (pc = "done" /\ \A k \in 1..Len(log) :
                        (FailedCall(log[k]) => log[k].name = "set_object_name"))
        => result = "Ok"

\* C10: write_mapped on a buffer whose allocation is not host-mapped returns
\* Err, writes nothing, leaves the buffer and its allocation as they were, and
\* does not abort.
C10_WriteUnmappedIsAnError ==
    [][(pc = "done" /\ ~buffer.mapped /\ buffer.state = "live"
          /\ last'.name = "write_mapped")
        => (last'.result = "Err" /\ buffer' = buffer /\ log' = log /\ pc' = "done")]_vars

C10_Witness ==
    /\ pc = "done"
    /\ buffer.state = "live" /\ ~buffer.mapped
    /\ buffer.mem = <<>> /\ buffer.destroyed = 0
    /\ last = [name |-> "write_mapped", result |-> "Err"]

\* C11: buffer round trip: when a byte-based constructor (Buffer::new,
\* Buffer::new_with_alignment) returns Ok for a byte sequence b of any length,
\* zero included, the allocation is host-mapped, is at least len(b) bytes long
\* and its first len(b) bytes are b.
C11_BufferRoundTrip ==
    (op \in ByteBased /\ pc = "done" /\ result = "Ok" /\ last = NoLast)
        => /\ buffer.mapped
           /\ Len(buffer.mem) >= Len(args.bytes)
           /\ SubSeq(buffer.mem, 1, Len(args.bytes)) = args.bytes

C11_Witness ==
    /\ Returned("Buffer::new") /\ last = NoLast
    /\ args.bytes = <<255, 0, 255>>
    /\ buffer.mem = <<255, 0, 255>>

\* C12: alignment override: the *_with_alignment constructors hand the
\* allocator a requirement whose alignment is the caller's, not the reported
\* one, and bind the buffer at the offset of the allocation they got back, so
\* the bound offset is a multiple of the caller's alignment.
C12_AlignmentOverride ==
    op \in WithAlignment =>
        \A k \in 1..Len(log) :
            /\ (log[k].kind = "call" /\ log[k].name = "allocate")
                  => log[k].alignment = args.alignment
            /\ (log[k].kind = "call" /\ log[k].name = "bind_buffer_memory")
                  => /\ log[k].offset = buffer.offset
                     /\ log[k].offset % args.alignment = 0

C12_Witness ==
    /\ Returned("Buffer::new_of_size_with_alignment")
    /\ args.alignment = 256
    /\ \E k \in 1..Len(log) :
          /\ log[k].kind = "call" /\ log[k].name = "bind_buffer_memory"
          /\ log[k].ok /\ log[k].offset = 768

\* ----------------------------------------------- select_physical_device
\* What the claims mean by a device that qualifies: some queue family has
\* graphics and can present to the surface, the surface reports a format, and
\* every required extension is among the supported ones.
Qualifies(d) ==
    /\ \E k \in 1..Len(d.queue_families) :
          d.queue_families[k].graphics /\ d.queue_families[k].present
    /\ Len(d.surface_formats) > 0
    /\ \A k \in 1..Len(sel.required) : sel.required[k] \in d.extensions

Qualifying == {j \in 1..Len(sel.devices) : Qualifies(sel.devices[j])}

DiscreteFirst(device_type) ==
    CASE device_type = "DISCRETE_GPU" -> 3
      [] device_type = "INTEGRATED_GPU" -> 2
      [] OTHER -> 1

SelectReturned == op = "select_physical_device" /\ pc = "done" /\ result = "Ok"

Selected == sel.selection[1]

\* C13: a device whose supported extensions lack any one of the required
\* extensions is never the device returned, nor ever a candidate.
C13_MissingExtensionNeverSelected ==
    /\ \A c \in 1..Len(sel.candidates) :
          \A k \in 1..Len(sel.required) :
              sel.required[k] \in sel.devices[sel.candidates[c].device].extensions
    /\ (SelectReturned /\ sel.selection # <<>>)
          => \A k \in 1..Len(sel.required) :
                 sel.required[k] \in sel.devices[Selected.device].extensions

\* The call returned a device although a discrete one enumerated before it
\* lacks the first of two required extensions.
C13_Witness ==
    /\ SelectReturned /\ sel.selection # <<>>
    /\ Len(sel.required) = 2
    /\ Selected.device = 2
    /\ sel.devices[2].device_type = "CPU"
    /\ sel.devices[1].device_type = "DISCRETE_GPU"
    /\ sel.devices[1].extensions = {"VK_KHR_ray_query"}

\* C14: the device returned has the highest device-type rank (discrete over
\* integrated over anything else) found among the qualifying devices.
C14_HighestRankSelected ==
    (SelectReturned /\ sel.selection # <<>>)
        => /\ Selected.device \in Qualifying
           /\ \A j \in Qualifying :
                 DiscreteFirst(sel.devices[Selected.device].device_type)
                    >= DiscreteFirst(sel.devices[j].device_type)

\* Two qualifying devices, the integrated one enumerated last, and the
\* discrete one is returned.
C14_Witness ==
    /\ SelectReturned /\ sel.selection # <<>>
    /\ Qualifying = {1, 2}
    /\ sel.devices[1].device_type = "DISCRETE_GPU"
    /\ sel.devices[2].device_type = "INTEGRATED_GPU"
    /\ Selected.device = 1

TopRanked ==
    {j \in Qualifying :
        \A k \in Qualifying : DiscreteFirst(sel.devices[j].device_type)
                                  >= DiscreteFirst(sel.devices[k].device_type)}

\* C15: when several qualifying devices share the highest rank, the device
\* returned is the one of them that was enumerated first.
C15_TieGoesToTheFirstEnumerated ==
    (SelectReturned /\ sel.selection # <<>>)
        => \A j \in TopRanked : Selected.device <= j

AnyFailedCall == \E k \in 1..Len(log) : FailedCall(log[k])

\* C16: the call returns Ok(None) exactly when no enumerated device
\* qualifies, and when the enumeration or a per-device query (surface
\* support, surface formats, device extensions) fails it returns an error
\* value: it neither returns None nor aborts.
C16_QueryFailureIsAnErrorValue ==
    (op = "select_physical_device" /\ pc \in {"done", "aborted"})
        => /\ AnyFailedCall => (pc = "done" /\ result = "Err")
           /\ (result = "Ok" /\ sel.selection = <<>>)
                 <=> (~AnyFailedCall /\ Qualifying = {})

FirstDesired(formats) ==
    {k \in 1..Len(formats) :
        /\ formats[k].format = sel.desired
        /\ formats[k].color_space = "SRGB_NONLINEAR"
        /\ \A j \in 1..(k - 1) :
              ~(formats[j].format = sel.desired
                  /\ formats[j].color_space = "SRGB_NONLINEAR")}

\* C17: the surface format returned is the first format the selected device
\* reports whose format is the desired one and whose colour space is
\* SRGB-nonlinear, if it reports one, and the first format it reports
\* otherwise.
C17_SurfaceFormatChoice ==
    (SelectReturned /\ sel.selection # <<>>)
        => LET formats == sel.devices[Selected.device].surface_formats IN
           IF FirstDesired(formats) # {}
           THEN \A k \in FirstDesired(formats) :
                    Selected.surface_format = formats[k]
           ELSE Selected.surface_format = formats[1]

\* The selected device reports the desired format in another colour space
\* before it reports it as SRGB-nonlinear.
C17_Witness ==
    /\ SelectReturned /\ sel.selection # <<>>
    /\ FirstDesired(sel.devices[Selected.device].surface_formats) = {2}
    /\ sel.devices[Selected.device].surface_formats[1].format = sel.desired

\* ------------------------------------------------------ image commands
\* The commands recorded into the command buffer, in order.
Commands == SelectSeq(log, LAMBDA e : e.kind # "call")

Barriers == SelectSeq(log, LAMBDA e : e.kind = "barrier")

\* A barrier of one transition with these fields.
IsBarrier(e, prev, next, layout, base, count, discard) ==
    /\ e.kind = "barrier"
    /\ Len(e.transitions) = 1
    /\ NoNothing(e.transitions[1].previous_accesses) = prev
    /\ e.transitions[1].next_accesses = next
    /\ e.transitions[1].next_layout = layout
    /\ e.transitions[1].base_mip_level = base
    /\ e.transitions[1].level_count = count
    /\ e.transitions[1].discard_contents = discard

\* C18: Image::new records exactly one barrier: no previous access, the
\* caller's next_accesses and next_layout, all mip_levels levels from level 0,
\* contents discarded; after it every level is in the caller's state.
C18_ImageNewRecordsOneBarrier ==
    op = "Image::new" =>
        /\ Len(Barriers) <= 1
        /\ Len(Commands) = Len(Barriers)
        /\ pc \in {"img_view", "img_view_name"} \/ Returned("Image::new")
             => /\ Len(Barriers) = 1
                /\ IsBarrier(Barriers[1], <<>>, args.next_accesses,
                             args.next_layout, 0, args.mip_levels, TRUE)
                /\ \A l \in 0..(args.mip_levels - 1) : LevelsNow[l] = FinalState

C18_Witness ==
    /\ Returned("Image::new")
    /\ args.mip_levels = 3
    /\ Len(Barriers) = 1
    /\ \A l \in 0..2 : LevelsNow[l] = FinalState

\* What C19 says about the command at place k of a load.
LoadCommandInOrder(k) ==
    LET c == Commands[k] IN
    IF k = 1
    THEN IsBarrier(c, <<>>, <<"TransferWrite">>, "Optimal", 0, args.mip_levels, TRUE)
    ELSE IF k = 2 THEN c.kind = "copy" /\ c.mip_level = 0
    ELSE IF k = 3 /\ args.mip_levels = 1
    THEN IsBarrier(c, <<"TransferWrite">>, args.next_accesses, args.next_layout,
                   0, args.mip_levels, FALSE)
    ELSE IF k = 3
    THEN IsBarrier(c, <<"TransferWrite">>, <<"TransferRead">>, "Optimal", 0, 1, FALSE)
    ELSE /\ args.mip_levels > 1
         /\ c.kind = IF k % 2 = 0 THEN "blit" ELSE "barrier"

\* C19: load_image_from_bytes records, in this order and nothing else: one
\* barrier of the whole image to transfer-destination with contents
\* discarded; one copy, into level 0; then for mip_levels = 1 one barrier of
\* the whole image from the copy's write to the caller's state, and for
\* mip_levels > 1 one barrier of level 0 alone from the copy's write to
\* transfer-read followed by the mip generator's commands.  No copy writes
\* another level.
C19_LoadCommandOrder ==
    op = "load_image_from_bytes" =>
        /\ \A k \in 1..Len(Commands) : LoadCommandInOrder(k)
        /\ Returned("load_image_from_bytes")
             => IF args.mip_levels = 1 THEN Len(Commands) = 3
                ELSE Len(Commands) = 3 + 2 * (args.mip_levels - 1)

C19_Witness ==
    /\ Returned("load_image_from_bytes")
    /\ args.mip_levels = 2
    /\ Len(Commands) = 5
    /\ Commands[2].kind = "copy" /\ Commands[4].kind = "blit"

\* C20: every image Image::new or load_image_from_bytes creates has
\* transfer-src among its usage flags, whatever usage the caller asked for
\* and whatever mip_levels is, 1 included.
C20_TransferSrcAlwaysInUsage ==
    \A k \in 1..Len(log) :
        (log[k].kind = "call" /\ log[k].name = "create_image")
            => "TRANSFER_SRC" \in log[k].usage

\* C21: load_image_from_bytes makes no destroy and no free call for its
\* staging buffer, on any path, and on success hands it to the caller live.
C21_StagingBufferLeftAlone ==
    (op = "load_image_from_bytes" /\ last = NoLast)
        => /\ buffer.destroyed = 0 /\ buffer.freed = 0
           /\ buffer.state # "moved"
           /\ Returned("load_image_from_bytes")
                => (buffer.state = "live" /\ buffer.mapped
                      /\ buffer.mem = args.bytes)

C21_Witness ==
    /\ Returned("load_image_from_bytes") /\ last = NoLast
    /\ args.mip_levels = 2
    /\ buffer.state = "live" /\ buffer.mem = <<255>>
    /\ buffer.destroyed = 0 /\ buffer.freed = 0

\* C22: every synchronization point is one pipeline-barrier command: each
\* generate_mips blit is followed by one barrier carrying both transitions
\* (its source level to the caller's state, its destination level to
\* transfer-read or the caller's state) and then by the next blit or the
\* end, so a load records 2 barriers for mip_levels = 1 and mip_levels + 1
\* barriers for mip_levels >= 2.
C22_OneBarrierPerSynchronizationPoint ==
    /\ \A k \in 1..(Len(Commands) - 1) :
          Commands[k].kind = "blit"
             => LET b == Commands[k + 1] IN
                /\ b.kind = "barrier"
                /\ Len(b.transitions) = 2
                /\ b.transitions[1].base_mip_level = Commands[k].src_level
                /\ b.transitions[1].next_accesses = args.next_accesses
                /\ b.transitions[2].base_mip_level = Commands[k].dst_level
                /\ b.transitions[2].next_accesses
                      \in {<<"TransferRead">>, args.next_accesses}
                /\ k + 2 <= Len(Commands) => Commands[k + 2].kind = "blit"
    /\ Returned("load_image_from_bytes")
          => Len(Barriers) = IF args.mip_levels = 1 THEN 2 ELSE args.mip_levels + 1

C22_Witness ==
    /\ Returned("load_image_from_bytes")
    /\ args.mip_levels = 3
    /\ Len(Barriers) = 4 /\ Len(Blits) = 2

\* The families of a device, counted from 0, that advertise graphics and can
\* present to the surface.
GraphicsPresentFamilies(d) ==
    {i \in 0..(Len(d.queue_families) - 1) :
        d.queue_families[i + 1].graphics /\ d.queue_families[i + 1].present}

\* C23: the queue family index returned is the lowest index of the selected
\* device's families that has graphics and can present to the surface; a
\* device with no such family is never selected.
C23_LowestQualifyingQueueFamily ==
    (SelectReturned /\ sel.selection # <<>>)
        => LET families == GraphicsPresentFamilies(sel.devices[Selected.device]) IN
           /\ families # {}
           /\ Selected.queue_family \in families
           /\ \A i \in families : Selected.queue_family <= i

\* Family 0 is returned for a device whose families 0 and 1 both qualify,
\* and a discrete device enumerated before it has no such family.
C23_Witness ==
    /\ SelectReturned /\ sel.selection # <<>>
    /\ Selected.device = 2
    /\ GraphicsPresentFamilies(sel.devices[2]) = {0, 1}
    /\ Selected.queue_family = 0
    /\ GraphicsPresentFamilies(sel.devices[1]) = {}
    /\ sel.devices[1].device_type = "DISCRETE_GPU"

\* C24: when the allocation a byte-based constructor (Buffer::new,
\* Buffer::new_with_alignment) got is not host-mapped, the constructor
\* returns an error value to its caller: it does not abort.
C24_UnmappedAllocationIsAnError ==
    (op \in ByteBased /\ buffer.state = "building" /\ ~buffer.mapped
        /\ pc # "buf_upload")
        => (pc = "done" /\ result = "Err")

\* C26: generate_mips ends after exactly max(0, mip_levels - 1) blits for
\* every mip_levels; with mip_levels = 0 the loop bound does not underflow:
\* the call does not abort and records no blit and no barrier.
C26_NoUnderflowAtZeroLevels ==
    op = "generate_mips"
        => /\ pc # "aborted"
           /\ Len(Blits) <= Max(0, args.mip_levels - 1)
           /\ Returned("generate_mips")
                => Len(Blits) = Max(0, args.mip_levels - 1)
           /\ args.mip_levels = 0 => Len(Barriers) = 0

\* The image dimensionality that goes with a view type.
Dimensionality(view_type) ==
    IF view_type \in {"TYPE_1D", "TYPE_1D_ARRAY"} THEN "TYPE_1D"
    ELSE IF view_type = "TYPE_3D" THEN "TYPE_3D"
    ELSE "TYPE_2D"

\* C25: in both constructors the image is created with the dimensionality of
\* the view type its view is created with: 1D for 1D and 1D-array views, 2D
\* for 2D, 2D-array, cube and cube-array views, 3D for 3D views.
C25_DimensionalityFollowsViewType ==
    \A j \in 1..Len(log) : \A k \in 1..Len(log) :
        (/\ log[j].kind = "call" /\ log[j].name = "create_image"
         /\ log[k].kind = "call" /\ log[k].name = "create_image_view")
            => /\ log[j].image_type = Dimensionality(log[k].view_type)
               /\ op = "load_image_from_bytes" => log[k].view_type = args.view_ty

C25_Witness ==
    /\ Returned("load_image_from_bytes")
    /\ args.view_ty = "TYPE_3D"
    /\ \E j \in 1..Len(log) :
          /\ log[j].kind = "call" /\ log[j].name = "create_image"
          /\ log[j].image_type = "TYPE_3D"

\* C27: write_mapped(bytes, offset) on a host-mapped buffer, with offset +
\* len(bytes) within the mapped size, returns Ok, sets the bytes at places
\* offset .. offset + len(bytes) - 1 to bytes, and leaves every other byte of
\* the allocation and everything else of the buffer as it was.
C27_WriteMappedFrame ==
    (pc = "done" /\ result = "Ok" /\ op \in BufferConstructors
        /\ buffer.state = "live" /\ buffer.mapped)
        => \A bytes \in ByteSeqs, offset \in 0..MaxLen :
              offset + Len(bytes) <= Len(buffer.mem)
                 => LET out == WriteMappedOutcome(buffer, bytes, offset) IN
                    /\ out.result = "Ok"
                    /\ Len(out.buffer.mem) = Len(buffer.mem)
                    /\ \A k \in 1..Len(buffer.mem) :
                          out.buffer.mem[k] =
                             IF k > offset /\ k <= offset + Len(bytes)
                             THEN bytes[k - offset] ELSE buffer.mem[k]
                    /\ [out.buffer EXCEPT !.mem = buffer.mem] = buffer

\* write_mapped has written one byte into the middle of a three-byte buffer.
C27_Witness ==
    /\ pc = "done" /\ op = "Buffer::new_of_size"
    /\ buffer.state = "live" /\ buffer.mapped
    /\ last = [name |-> "write_mapped", result |-> "Ok"]
    /\ buffer.mem = <<170, 255, 170>>

====
